---- MODULE Spec2Model ----
(***************************************************************************)
(* Model of pokerstars.py: the card-token validation, the deck setup and   *)
(* the Monte Carlo trial loop of calculate_win_probability, together with  *)
(* the input checks of the Streamlit script that calls it.                 *)
(*                                                                         *)
(* A card token is a sequence of one-character strings (<<"A","s">> is the *)
(* token 'As').  A card is the 32-bit integer treys' Card.new builds.      *)
(* The random draws (Deck()'s shuffle, random.sample) are nondeterministic *)
(* choices; the model enumerates a bounded family of them, each of which   *)
(* is an outcome the random generator can produce.                         *)
(***************************************************************************)
EXTENDS Integers, Sequences, FiniteSets, TLC

(* ------------------------------ bounds --------------------------------- *)
\* num_simulations is MaxSims (the code's default is 10000).
MaxSims == 2
\* random.sample: the first opponent's draw, and the draw of the remaining
\* board, start at a position 0..MaxOffset of the list they draw from ...
MaxOffset == 1
\* ... and successive opponents' draws start 0..MaxStride positions apart.
MaxStride == 2

(* ------------------------- program constants --------------------------- *)
HoleCount == 2
BoardSize == 5
SliderMin == 2
SliderMax == 10
DeckSize == 52

STR_RANKS == <<"2", "3", "4", "5", "6", "7", "8", "9", "T", "J", "Q", "K", "A">>
STR_SUITS == <<"s", "h", "d", "c">>
valid_ranks == {STR_RANKS[k] : k \in 1..Len(STR_RANKS)}
valid_suits == {STR_SUITS[k] : k \in 1..Len(STR_SUITS)}
PRIMES == <<2, 3, 5, 7, 11, 13, 17, 19, 23, 29, 31, 37, 41>>

Range(s) == {s[k] : k \in 1..Len(s)}

(* ----------------------------- validation ------------------------------ *)
\* validate_cards: the per-token test of its loop.
ValidToken(card) ==
    ~(Len(card) # 2 \/ card[1] \notin valid_ranks \/ card[2] \notin valid_suits)

validate_cards(cards) == \A k \in 1..Len(cards) : ValidToken(cards[k])

(* ------------------------------ Card.new ------------------------------- *)
CHAR_RANK_TO_INT_RANK(ch) == (CHOOSE k \in 1..Len(STR_RANKS) : STR_RANKS[k] = ch) - 1
CHAR_SUIT_TO_INT_SUIT(ch) == 2 ^ ((CHOOSE k \in 1..Len(STR_SUITS) : STR_SUITS[k] = ch) - 1)

\* What Card.new(string) does with a token: string[0] and string[1] are read
\* (IndexError when absent), both are looked up in a dict (KeyError when
\* unknown), and any further characters are never looked at.
CardNewOutcome(string) ==
    IF Len(string) < 2 THEN "IndexError"
    ELSE IF string[1] \notin valid_ranks \/ string[2] \notin valid_suits THEN "KeyError"
    ELSE "ok"

\* bitrank << 16 | suit << 12 | rank << 8 | prime
CardNew(string) ==
    LET rank_int == CHAR_RANK_TO_INT_RANK(string[1])
        suit_int == CHAR_SUIT_TO_INT_SUIT(string[2])
    IN  (2 ^ rank_int) * 65536 + suit_int * 4096 + rank_int * 256 + PRIMES[rank_int + 1]

get_rank_int(card) == (card \div 256) % 16
get_suit_int(card) == (card \div 4096) % 16

\* The outcome of the two list comprehensions of lines 45-46 over the tokens
\* in order: the first token that fails decides the exception.
RECURSIVE ConvertOutcome(_)
ConvertOutcome(tokens) ==
    IF tokens = <<>> THEN "ok"
    ELSE IF CardNewOutcome(Head(tokens)) # "ok" THEN CardNewOutcome(Head(tokens))
    ELSE ConvertOutcome(Tail(tokens))

CardInts(tokens) == [k \in 1..Len(tokens) |-> CardNew(tokens[k])]

(* -------------------------------- Deck --------------------------------- *)
\* Deck.GetFullDeck(): for rank in STR_RANKS, for suit in 'shdc'.
FullDeck ==
    [k \in 1..DeckSize |->
        CardNew(<<STR_RANKS[((k - 1) \div 4) + 1], STR_SUITS[((k - 1) % 4) + 1]>>)]

Rotate(s, r) == [k \in 1..Len(s) |-> s[((k - 1 + r) % Len(s)) + 1]]

\* Mutant of RemoveFirst: list.pop() in place of list.remove(card).
RemoveLast(s, card) == SubSeq(s, 1, Len(s) - 1)

\* list.remove(card): drops the first occurrence.
RemoveFirst(s, card) ==
    LET p == CHOOSE k \in 1..Len(s) : s[k] = card /\ \A m \in 1..(k - 1) : s[m] # card
    IN  [k \in 1..(Len(s) - 1) |-> IF k < p THEN s[k] ELSE s[k + 1]]

\* Mutant of RemoveOutcome: a removal that skips a missing card silently.
RemoveOutcomeLenient(cards, used) == "ok"

\* The removal loop of lines 51-55.  RemoveOutcome tells whether the loop
\* raises (a card is not in the deck when its turn comes), RemoveUsed is the
\* deck the loop leaves (the deck at the raise, when it raises).
RECURSIVE RemoveOutcome(_, _)
RemoveOutcome(cards, used) ==
    IF used = <<>> THEN "ok"
    ELSE IF Head(used) \in Range(cards)
         THEN RemoveOutcome(RemoveFirst(cards, Head(used)), Tail(used))
         ELSE "unavailable"

RECURSIVE RemoveUsed(_, _)
RemoveUsed(cards, used) ==
    IF used = <<>> THEN cards
    ELSE IF Head(used) \in Range(cards)
         THEN RemoveUsed(RemoveFirst(cards, Head(used)), Tail(used))
         ELSE cards

(* ------------------------------ Evaluator ------------------------------ *)
\* treys' Evaluator maps a hand to its rank class 1..7462, lower is better.
\* The model computes a number with the same order and the same equalities:
\* the category first, then the ranks that decide within the category.
RankMask(R) ==
    LET f[k \in 0..13] ==
            IF k = 0 THEN 0
            ELSE f[k - 1] + (IF (k - 1) \in R THEN 2 ^ (k - 1) ELSE 0)
    IN  f[13]

MaxOf(S) == CHOOSE x \in S : \A y \in S : y <= x
MinOf(S) == CHOOSE x \in S : \A y \in S : x <= y

\* The ranks of the straight whose top rank is t (the wheel A-2-3-4-5 is
\* five-high).
StraightRanks(t) == IF t = 3 THEN {12, 0, 1, 2, 3} ELSE (t - 4)..t

\* The top rank of the best straight among the ranks R, -1 if there is none.
BestStraight(R) ==
    LET tops == {t \in 3..12 : StraightRanks(t) \subseteq R}
    IN  IF tops = {} THEN -1 ELSE MaxOf(tops)

\* The k highest ranks of R.
Top(R, k) == {r \in R : Cardinality({x \in R : x > r}) < k}

CategoryBase == 67108864
MaskBase == 8192
WorstScore == 9 * CategoryBase

\* Strength of the best five-card hand among the cards (higher is stronger):
\* category * CategoryBase + deciding ranks * MaskBase + kickers.
Strength(cards) ==
    LET R == {get_rank_int(c) : c \in cards}
        cnt(r) == Cardinality({c \in cards : get_rank_int(c) = r})
        R4 == {r \in R : cnt(r) = 4}
        R3 == {r \in R : cnt(r) = 3}
        R2 == {r \in R : cnt(r) = 2}
        suited(s) == {c \in cards : get_suit_int(c) = s}
        flushes == {s \in {1, 2, 4, 8} : Cardinality(suited(s)) >= 5}
        F == IF flushes = {} THEN {}
             ELSE {get_rank_int(c) : c \in suited(CHOOSE s \in flushes : TRUE)}
        enc(cat, p, q) == cat * CategoryBase + p * MaskBase + q
    IN  IF BestStraight(F) >= 0 THEN enc(8, BestStraight(F), 0)
        ELSE IF R4 # {} THEN
            enc(7, RankMask({MaxOf(R4)}), RankMask({MaxOf(R \ {MaxOf(R4)})}))
        ELSE IF R3 # {} /\ (Cardinality(R3) >= 2 \/ R2 # {}) THEN
            enc(6, RankMask({MaxOf(R3)}), RankMask({MaxOf((R3 \ {MaxOf(R3)}) \cup R2)}))
        ELSE IF F # {} THEN enc(5, 0, RankMask(Top(F, 5)))
        ELSE IF BestStraight(R) >= 0 THEN enc(4, BestStraight(R), 0)
        ELSE IF R3 # {} THEN enc(3, RankMask(R3), RankMask(Top(R \ R3, 2)))
        ELSE IF Cardinality(R2) >= 2 THEN
            enc(2, RankMask(Top(R2, 2)), RankMask({MaxOf(R \ Top(R2, 2))}))
        ELSE IF R2 # {} THEN enc(1, RankMask(R2), RankMask(Top(R \ R2, 3)))
        ELSE enc(0, 0, RankMask(Top(R, 5)))

\* evaluator.evaluate(cards, board): the rank of the best five-card hand
\* among all the cards of the two lists, lower is better.
evaluate(cards, board) == WorstScore - Strength(Range(cards) \cup Range(board))

(* ---------------------------- random.sample --------------------------- *)
\* sample(population, k) raises ValueError when k is negative or larger than
\* the population.
SampleRaises(population, k) == k < 0 \/ k > Len(population)

\* One outcome of sample(population, k): the k cards at the (cyclic)
\* positions start, start+1, ... of the population.
SampleAt(population, k, start) ==
    [j \in 1..k |-> population[((start + j - 1) % Len(population)) + 1]]

\* Mutant of PopulationAfterSample: the cards drawn leave the population, as
\* they would with Deck.draw.
PopulationAfterDraw(population, drawn) ==
    SelectSeq(population, LAMBDA c : c \notin drawn)

\* sample(population, k) returns a new list: the population it drew from is
\* the same list afterwards.
PopulationAfterSample(population, drawn) == population

\* Line 62: one independent sample(deck.cards, 2) per opponent; opponent j's
\* draw starts at position o + (j-1)*d.
OpponentsHands(cards, n, o, d) ==
    [j \in 1..(n - 1) |-> SampleAt(cards, 2, o + (j - 1) * d)]

\* sum(opponents_hands, [])
Flatten(hands) == UNION {Range(hands[j]) : j \in 1..Len(hands)}

\* Line 64: [c for c in deck.cards if c not in sum(opponents_hands, [])]
NotDealt(cards, hands) == SelectSeq(cards, LAMBDA c : c \notin Flatten(hands))

\* Mutant of RemainingCount: a full board is drawn whatever is known.
RemainingCountAll(board) == BoardSize

\* Line 64: the number of board cards a trial draws.
RemainingCount(board) == BoardSize - Len(board)

\* Line 77: the test that increments wins.
HeroWins(hero, opponents) == hero <= MinOf(Range(opponents))

(* ------------------------------- inputs -------------------------------- *)
Tok(r, s) == <<r, s>>

\* First hole-card tokens: two cards, an unknown rank, an unknown suit, a
\* token with a third character, the empty token.
HoleTokens ==
    {Tok("A", "s"), Tok("K", "s"), Tok("X", "s"), Tok("A", "x"), <<"A", "s", "x">>, <<>>}

\* The hole cards given: any first token with 'Ks', and a single card.
HoleInputs == {<<t, Tok("K", "s")>> : t \in HoleTokens} \cup {<<Tok("A", "s")>>}

\* The docstring's example board, extended.
ExampleBoard ==
    <<Tok("Q", "s"), Tok("J", "h"), Tok("9", "d"), Tok("2", "c"), Tok("3", "c"), Tok("4", "c")>>
\* A board that is a straight by itself.
StraightBoard == <<Tok("T", "h"), Tok("J", "h"), Tok("Q", "d"), Tok("K", "c"), Tok("A", "c")>>
\* A list that repeats a card and holds malformed tokens.
BadBoard == <<Tok("J", "h"), Tok("J", "h"), Tok("X", "x"), <<"Q">> >>
\* A board that holds one of the hole cards.
HeroBoard == <<Tok("K", "s"), Tok("J", "h"), Tok("9", "d")>>

Prefixes(p) == {SubSeq(p, 1, k) : k \in 0..Len(p)}

BoardInputs ==
    Prefixes(ExampleBoard) \cup {StraightBoard} \cup Prefixes(BadBoard) \cup {HeroBoard}

\* Player counts a caller of the function passes; the slider offers only
\* SliderMin..SliderMax of them.
PlayerCounts == {1, 2, 3, 11, 24}

\* Orders Deck()'s shuffle leaves the cards in: rotations of the factory order.
ShuffleRotations == {0, 7}

(* -------------------------------- state -------------------------------- *)
VARIABLES
    via,              \* "app": the Streamlit script calls; "direct": another caller
    hole_cards,       \* the tokens given as hole cards
    board_cards,      \* the tokens given as board cards
    num_players,
    num_simulations,
    pc,               \* "input", "rejected", "called", "loop", "returned", "raised", "shown"
    deck,             \* deck.cards
    hole_card_ints,
    board_card_ints,
    wins,
    trials,           \* iterations of the loop of line 60 completed
    opponents_hands,  \* of the last trial
    final_board,      \* of the last trial
    hero_score,       \* of the last trial
    opponent_scores,  \* of the last trial
    error,            \* the exception that ended the call, "" if none
    result,           \* <<>> or <<numerator, denominator>> of the percentage returned
    ui,               \* what the script shows
    ties,             \* history: trials in which the hero's rank equalled the best opponent's
    losses            \* history: trials in which an opponent's rank was better

inputs == <<via, hole_cards, board_cards, num_players, num_simulations>>
locals == <<deck, hole_card_ints, board_card_ints>>
tally == <<wins, trials, ties, losses>>
last == <<opponents_hands, final_board, hero_score, opponent_scores>>
vars == <<inputs, pc, locals, tally, last, error, result, ui>>

Init ==
    /\ via \in {"app", "direct"}
    /\ hole_cards \in HoleInputs
    /\ board_cards \in BoardInputs
    /\ num_players \in PlayerCounts
    /\ via = "app" => num_players \in SliderMin..SliderMax
    /\ num_simulations = MaxSims
    /\ pc = "input"
    /\ deck = <<>>
    /\ hole_card_ints = <<>>
    /\ board_card_ints = <<>>
    /\ wins = 0
    /\ trials = 0
    /\ ties = 0
    /\ losses = 0
    /\ opponents_hands = <<>>
    /\ final_board = <<>>
    /\ hero_score = 0
    /\ opponent_scores = <<>>
    /\ error = ""
    /\ result = <<>>
    /\ ui = ""

(* ------------------------- the Streamlit script ------------------------ *)
Show(msg) ==
    /\ pc' = "shown"
    /\ ui' = msg
    /\ UNCHANGED <<inputs, locals, tally, last, error, result>>

\* Lines 105-106.
AppRejectHoleCount ==
    /\ pc = "input" /\ via = "app"
    /\ Len(hole_cards) # HoleCount
    /\ Show("Please enter exactly 2 hole cards.")

\* Lines 107-108.
AppRejectBoardCount ==
    /\ pc = "input" /\ via = "app"
    /\ Len(hole_cards) = HoleCount
    /\ Len(board_cards) > BoardSize
    /\ Show("You can enter a maximum of 5 board cards.")

\* Lines 109-110.
AppRejectInvalid ==
    /\ pc = "input" /\ via = "app"
    /\ Len(hole_cards) = HoleCount
    /\ Len(board_cards) <= BoardSize
    /\ ~validate_cards(hole_cards \o board_cards)
    /\ Show("One or more cards are invalid.")

\* Lines 40-41: evaluator = Evaluator(); deck = Deck(), whose constructor
\* shuffles the 52 cards.
Enter ==
    /\ pc' = "called"
    /\ \E r \in ShuffleRotations : deck' = Rotate(FullDeck, r)
    /\ UNCHANGED <<inputs, hole_card_ints, board_card_ints, tally, last, error, result, ui>>

\* Lines 111-117: the button is pressed and the function is called.
AppCalculate ==
    /\ pc = "input" /\ via = "app"
    /\ Len(hole_cards) = HoleCount
    /\ Len(board_cards) <= BoardSize
    /\ validate_cards(hole_cards \o board_cards)
    /\ Enter

\* Another caller, passing what the docstring asks for: two hole cards and a
\* list of community cards, as strings.
DirectCall ==
    /\ pc = "input" /\ via = "direct"
    /\ Len(hole_cards) = HoleCount
    /\ Len(board_cards) <= BoardSize
    /\ Enter

\* Line 118.
AppShowSuccess ==
    /\ pc = "returned" /\ via = "app"
    /\ Show("Your probability of winning is")

\* Lines 119-120.
AppShowError ==
    /\ pc = "raised" /\ via = "app"
    /\ error \in {"ValueError: Invalid card", "ValueError: not available in the deck",
                  "ValueError: sample", "ValueError: min"}
    /\ Show("Error calculating probability")

(* --------------------- calculate_win_probability ----------------------- *)
Raise(e) ==
    /\ pc' = "raised"
    /\ error' = e

\* Lines 44-48: a KeyError of Card.new becomes ValueError("Invalid card").
ConvertInvalid ==
    /\ pc = "called"
    /\ ConvertOutcome(hole_cards \o board_cards) = "KeyError"
    /\ Raise("ValueError: Invalid card")
    /\ UNCHANGED <<inputs, locals, tally, last, result, ui>>

\* Lines 44-48: an IndexError of Card.new is not caught by 'except KeyError'.
ConvertIndexError ==
    /\ pc = "called"
    /\ ConvertOutcome(hole_cards \o board_cards) = "IndexError"
    /\ Raise("IndexError")
    /\ UNCHANGED <<inputs, locals, tally, last, result, ui>>

\* Lines 44-55: the conversion succeeds and the removal loop raises.
RemoveUnavailable ==
    /\ pc = "called"
    /\ ConvertOutcome(hole_cards \o board_cards) = "ok"
    /\ LET used == CardInts(hole_cards) \o CardInts(board_cards)
       IN  /\ RemoveOutcome(deck, used) = "unavailable"
           /\ deck' = RemoveUsed(deck, used)
    /\ hole_card_ints' = CardInts(hole_cards)
    /\ board_card_ints' = CardInts(board_cards)
    /\ Raise("ValueError: not available in the deck")
    /\ UNCHANGED <<inputs, tally, last, result, ui>>

\* Lines 44-57: the conversion and the removal succeed; wins = 0.
SetupDone ==
    /\ pc = "called"
    /\ ConvertOutcome(hole_cards \o board_cards) = "ok"
    /\ LET used == CardInts(hole_cards) \o CardInts(board_cards)
       IN  /\ RemoveOutcome(deck, used) = "ok"
           /\ deck' = RemoveUsed(deck, used)
    /\ hole_card_ints' = CardInts(hole_cards)
    /\ board_card_ints' = CardInts(board_cards)
    /\ pc' = "loop"
    /\ wins' = 0
    /\ UNCHANGED <<inputs, trials, ties, losses, last, error, result, ui>>

\* Lines 62-65: the draw of the remaining board raises (too few cards are
\* left once the opponents' cards are filtered out).
TrialSampleRaises ==
    /\ pc = "loop" /\ trials < num_simulations
    /\ \E o \in 0..MaxOffset, d \in 0..MaxStride :
          LET hands == OpponentsHands(deck, num_players, o, d)
          IN  /\ SampleRaises(NotDealt(deck, hands), RemainingCount(board_cards))
              /\ opponents_hands' = hands
    /\ Raise("ValueError: sample")
    /\ UNCHANGED <<inputs, locals, tally, final_board, hero_score, opponent_scores,
                   result, ui>>

\* Lines 62-77: min() of an empty list of opponent scores raises.
TrialMinRaises ==
    /\ pc = "loop" /\ trials < num_simulations
    /\ num_players - 1 <= 0
    /\ \E o \in 0..MaxOffset :
          LET pool == NotDealt(deck, <<>>)
              k == RemainingCount(board_cards)
          IN  /\ ~SampleRaises(pool, k)
              /\ final_board' = board_card_ints \o SampleAt(pool, k, o)
              /\ hero_score' = evaluate(final_board', hole_card_ints)
    /\ opponents_hands' = <<>>
    /\ opponent_scores' = <<>>
    /\ Raise("ValueError: min")
    /\ UNCHANGED <<inputs, locals, tally, result, ui>>

\* What one trial that raises nothing assigns, the deck apart (lines 62-78).
TrialEffects(hands, remaining_board) ==
    /\ opponents_hands' = hands
    /\ final_board' = board_card_ints \o remaining_board
    /\ hero_score' = evaluate(final_board', hole_card_ints)
    /\ opponent_scores' = [j \in 1..Len(hands) |-> evaluate(final_board', hands[j])]
    /\ wins' = IF HeroWins(hero_score', opponent_scores') THEN wins + 1 ELSE wins
    /\ ties' = IF hero_score' = MinOf(Range(opponent_scores')) THEN ties + 1 ELSE ties
    /\ losses' = IF hero_score' > MinOf(Range(opponent_scores')) THEN losses + 1 ELSE losses
    /\ trials' = trials + 1

\* Lines 60-78: one iteration of the loop.
Trial ==
    /\ pc = "loop" /\ trials < num_simulations
    /\ num_players - 1 > 0
    /\ \E o \in 0..MaxOffset, d \in 0..MaxStride :
          LET hands == OpponentsHands(deck, num_players, o, d)
              pool == NotDealt(deck, hands)
              k == RemainingCount(board_cards)
          IN  /\ ~SampleRaises(pool, k)
              /\ TrialEffects(hands, SampleAt(pool, k, o))
              /\ deck' = PopulationAfterSample(
                             PopulationAfterSample(deck, Flatten(hands)),
                             Range(SampleAt(pool, k, o)))
    /\ UNCHANGED <<inputs, pc, hole_card_ints, board_card_ints, error, result, ui>>

\* Line 80.
Return ==
    /\ pc = "loop" /\ trials = num_simulations
    /\ pc' = "returned"
    /\ result' = <<wins * 100, num_simulations>>
    /\ UNCHANGED <<inputs, locals, tally, last, error, ui>>

Next ==
    \/ AppRejectHoleCount
    \/ AppRejectBoardCount
    \/ AppRejectInvalid
    \/ AppCalculate
    \/ DirectCall
    \/ ConvertInvalid
    \/ ConvertIndexError
    \/ RemoveUnavailable
    \/ SetupDone
    \/ TrialSampleRaises
    \/ TrialMinRaises
    \/ Trial
    \/ Return
    \/ AppShowSuccess
    \/ AppShowError

Spec == Init /\ [][Next]_vars

(* ------------------------------- claims -------------------------------- *)
\* The function was entered: deck = Deck() has run.
Entered == deck # <<>>
\* The last trial ran to its end.
TrialCompleted == trials >= 1 /\ error = ""
\* The cards the tokens given stand for.
GivenCards == CardInts(hole_cards \o board_cards)
HasDuplicate(cards) == \E j, k \in 1..Len(cards) : j # k /\ cards[j] = cards[k]
LoopErrors == {"ValueError: sample", "ValueError: min"}

\* C1: in every trial the hero's 2 hole cards, every opponent's 2 hole cards
\* and the 5 cards of the final board are pairwise distinct.
C1_TrialCardsDistinct ==
    (TrialCompleted /\ num_players >= 2) =>
        Cardinality(Range(hole_card_ints) \cup Flatten(opponents_hands)
                        \cup Range(final_board))
            = HoleCount + 2 * (num_players - 1) + BoardSize

\* C2: a trial in which the hero's rank equals the best opponent rank does
\* not increment the win counter.
C2_TieIsNotAWin ==
    [][(trials' = trials + 1 /\ hero_score' = MinOf(Range(opponent_scores')))
          => wins' = wins]_vars

\* C3: when a card appears twice among the hole and board cards given, the
\* call ends with the card-not-available error of the deck setup, no trial
\* has run and no probability is returned.
C3_DuplicateCardRejected ==
    (Entered /\ pc # "called" /\ ConvertOutcome(hole_cards \o board_cards) = "ok"
        /\ HasDuplicate(GivenCards)) =>
        /\ pc \in {"raised", "shown"}
        /\ error = "ValueError: not available in the deck"
        /\ trials = 0
        /\ final_board = <<>>
        /\ result = <<>>

C3_Witness ==
    /\ pc = "raised"
    /\ error = "ValueError: not available in the deck"
    /\ HasDuplicate(GivenCards)
    /\ ~HasDuplicate(CardInts(hole_cards))
    /\ ~HasDuplicate(CardInts(board_cards))

\* C4: once the deck setup has succeeded, no trial fails, for every
\* num_players >= 2 and every known board of 0..5 cards.
C4_NoTrialFails ==
    (num_players >= 2 /\ Len(board_cards) <= BoardSize) => error \notin LoopErrors

\* C5: a player count outside [2,10] is rejected before any trial is run: it
\* never reaches the trial loop, is never simulated and never fails in a trial.
C5_PlayerCountValidated ==
    num_players \notin SliderMin..SliderMax =>
        /\ pc \notin {"loop", "returned"}
        /\ trials = 0
        /\ error \notin LoopErrors

\* C6: after the deck setup removed the set S of hole and board cards, the
\* deck holds no card of S, every other card, and 52 - |S| cards.
C6_DeckAfterSetup ==
    (pc \in {"loop", "returned"}) =>
        LET S == Range(GivenCards)
        IN  /\ Range(deck) = Range(FullDeck) \ S
            /\ Len(deck) = DeckSize - Cardinality(S)
            /\ Cardinality(S) = HoleCount + Len(board_cards)

C6_Witness == pc = "loop" /\ trials = 0 /\ Len(board_cards) = 3

\* The card-token format: two characters, a rank of 23456789TJQKA and a suit
\* of shdc.
WellFormed(token) ==
    /\ Len(token) = 2
    /\ token[1] \in {"2", "3", "4", "5", "6", "7", "8", "9", "T", "J", "Q", "K", "A"}
    /\ token[2] \in {"s", "h", "d", "c"}

\* C7: validate_cards accepts exactly the well-formed tokens, and the
\* conversion inside calculate_win_probability ends with the invalid-card
\* error whenever a token given is not well-formed.
C7_MalformedTokenRejected ==
    LET tokens == hole_cards \o board_cards
    IN  /\ validate_cards(tokens) <=> \A k \in 1..Len(tokens) : WellFormed(tokens[k])
        /\ (Entered /\ pc # "called" /\ \E k \in 1..Len(tokens) : ~WellFormed(tokens[k]))
              => error = "ValueError: Invalid card"

\* C8: the trial loop leaves the base deck, the hole cards and the known
\* board as they are: every trial draws from the same 52 - 2 - len(board)
\* cards, and the deck changes (shrinks) only during setup.
C8_TrialsShareBaseDeck ==
    /\ [](pc = "loop" => Len(deck) = DeckSize - HoleCount - Len(board_cards))
    /\ [][pc \notin {"input", "called"} =>
            (deck' = deck /\ hole_card_ints' = hole_card_ints
                /\ board_card_ints' = board_card_ints)]_vars
    /\ [][pc = "called" => Len(deck') <= Len(deck)]_vars

C8_Witness == pc = "loop" /\ trials = MaxSims /\ Len(board_cards) = 0 /\ num_players = 3

\* C9: the final board of a trial has exactly 5 cards and begins with the
\* known board; with a 5-card known board it is the known board, and the
\* hero's rank is the same in every trial.
C9_FinalBoardKeepsKnownBoard ==
    /\ [](final_board # <<>> =>
            /\ Len(final_board) = BoardSize
            /\ SubSeq(final_board, 1, Len(board_card_ints)) = board_card_ints
            /\ (Len(board_cards) = BoardSize => final_board = CardInts(board_cards)))
    /\ [][(Len(board_cards) = BoardSize /\ trials >= 1 /\ trials' = trials + 1)
            => hero_score' = hero_score]_vars

C9_Witness ==
    /\ Len(board_cards) = BoardSize
    /\ trials >= 2
    /\ num_players = 2
    /\ final_board = board_card_ints

\* C10: every trial falls in exactly one of hero-win, tie and loss: the win
\* tally, the ties and the losses sum to the number of trials run (so the
\* three rates sum to 100), and the win tally lies in 0..trials.
C10_TalliesPartitionTrials ==
    /\ wins \in 0..trials
    /\ error = "" => wins + ties + losses = trials
    /\ pc = "returned" =>
          /\ trials = num_simulations
          /\ result = <<wins * 100, num_simulations>>
          /\ (wins + ties + losses) * 100 = 100 * num_simulations

====
